---- MODULE Spec2Model ----
(***************************************************************************)
(* havarotjs: the syllable structure engine (Syllable.parts and            *)
(* Syllable.structure), the holem-waw correction pass and the input        *)
(* validation of Text, as state machines.                                  *)
(*                                                                         *)
(*   Spec      one Syllable, its caches and its accessors                  *)
(*   SpecHW    holemWaw applied to one word                                *)
(*   SpecText  construction of a Text from one input string                *)
(*   SpecAssign  one Syllable under assignment of its flags and links      *)
(*   SpecWords   the chain of the syllables of the words of a Text         *)
(*   SpecPair    one Syllable and the syllable that follows it             *)
(*   SpecGraph   the Words and Syllables that the accessors of a Text build*)
(***************************************************************************)
EXTENDS Integers, Sequences, FiniteSets, TLC

VARIABLES
    clusters,         \* Syllable.#clusters: the clusters of the syllable
    isFinal,          \* Syllable.#isFinal
    next,             \* Node.next of the syllable: a syllable or null
    cachedParts,      \* Syllable.#cachedParts: null or an array object
    cachedStructure,  \* Syllable.#cachedStructure: null or a triple object
    nextId,           \* the identity the next allocated object receives
    ret,              \* what the latest access returned, raised, or that it hangs
    firstParts,       \* identity of the array the first `parts` access returned
    firstStructure,   \* identity of the triple the first `structure` access returned
    isClosed,         \* Syllable.#isClosed
    isAccented,       \* Syllable.#isAccented
    wordOf,           \* Syllable.#word: the owning word or null
    previous,         \* Node.prev of the syllable: a syllable or null
    word,             \* holemWaw: the word argument
    options,          \* holemWaw: the options argument
    hwOut,            \* holemWaw: the outcome of the call
    text,             \* Text: the string given to the constructor
    textOut,          \* Text: the outcome of the constructor
    shape,            \* a Text's words: for each word, the number of its syllables
    links,            \* for each syllable of the Text, its next, prev and word
    read,             \* what the latest read of a syllable's next or prev yielded
    nextCachedParts,  \* #cachedParts of the following syllable
    heap,             \* the Word and Syllable objects a Text has built, by identity
    children,         \* Node.children of the Text: null or its latest Word objects
    got,              \* what the latest accessor of the Text or of its graph returned
    invocations       \* the number of accessor invocations on the Text

vars == <<clusters, isFinal, next, cachedParts, cachedStructure, nextId, ret,
          firstParts, firstStructure, isClosed, isAccented, wordOf, previous,
          word, options, hwOut, text, textOut, shape, links, read,
          nextCachedParts, heap, children, got, invocations>>

sylVars == <<clusters, isFinal, next, cachedParts, cachedStructure, nextId, ret,
             firstParts, firstStructure>>
hwVars == <<word, options, hwOut>>
textVars == <<text, textOut>>
flagVars == <<isClosed, isAccented, wordOf, previous>>
linkVars == <<shape, links, read>>
graphVars == <<nextCachedParts, heap, children, got, invocations>>

(***************************************************************************)
(* Bounds of the model.                                                    *)
(***************************************************************************)
MaxClusters == 2
MaxWordLen == 5
MaxTextLen == 3
MaxWords == 2
MaxSyllables == 3
MaxInvocations == 2

Null == [kind |-> "null"]
Idle == [kind |-> "idle"]
NoAccess == [op |-> "none", kind |-> "none", fresh |-> FALSE, partsFresh |-> FALSE, id |-> 0]

(***************************************************************************)
(* Sequences as JavaScript arrays and strings.                             *)
(***************************************************************************)
Min(a, b) == IF a < b THEN a ELSE b
Max(a, b) == IF a > b THEN a ELSE b

\* Array.prototype.slice(from) / slice(0, n), with 0-based arguments
SliceFrom(s, from) == SubSeq(s, Min(from, Len(s)) + 1, Len(s))
SliceTo(s, n) == SubSeq(s, 1, Min(n, Len(s)))

RECURSIVE SeqsUpTo(_, _)
SeqsUpTo(S, n) ==
    IF n = 0 THEN {<<>>}
    ELSE LET shorter == SeqsUpTo(S, n - 1)
         IN  shorter \cup {Append(s, x) : s \in {t \in shorter : Len(t) = n - 1}, x \in S}

(***************************************************************************)
(* Characters.  A character's text is written by its name.                 *)
(***************************************************************************)
Consonants == {"mem", "dalet", "vav", "yod", "het", "ayin", "he", "shin", "kaf"}
Vowels == {"patah", "qamats", "hiriq", "sheva"}

\* Char.sequencePosition
sequencePosition(t) ==
    IF t \in Consonants THEN 0
    ELSE IF t = "dagesh" THEN 1
    ELSE IF t = "shindot" THEN 2
    ELSE IF t \in Vowels THEN 3
    ELSE IF t = "taam" THEN 4
    ELSE 10

\* hebChars.test(char.text)
hebChars(t) == t # "latin"

\* a character read off a part that holds `undefined`
Undefined == [text |-> "undefined", syl |-> -1, cl |-> 0, k |-> 0]

(***************************************************************************)
(* Clusters.  A cluster is its characters and the flags the syllable       *)
(* engine reads.                                                           *)
(***************************************************************************)
Cluster(chars, flags) ==
    [chars |-> chars,
     isShureq |-> "shureq" \in flags,
     isMater |-> "mater" \in flags,
     isNotHebrew |-> "notHebrew" \in flags,
     isPunctuation |-> "punctuation" \in flags]

ClusterPool ==
    { Cluster(<<"mem", "patah">>, {}),
      Cluster(<<"dalet", "dagesh", "qamats">>, {}),
      Cluster(<<"vav", "dagesh">>, {"shureq"}),
      Cluster(<<"ayin", "patah">>, {}),
      Cluster(<<"he", "dagesh", "patah">>, {}),
      Cluster(<<"yod">>, {"mater"}),
      Cluster(<<"shin", "shindot", "sheva">>, {}),
      Cluster(<<"kaf">>, {}),
      Cluster(<<"mem", "hiriq", "taam">>, {}),
      Cluster(<<"sofpasuq">>, {"punctuation"}),
      Cluster(<<"latin">>, {"notHebrew"}),
      Cluster(<<"latin", "hiriq", "dagesh">>, {"notHebrew"}),
      Cluster(<<"mem", "patah", "dagesh">>, {}) }

\* the first cluster of the following syllable, when there is one
NextPool ==
    { <<>>,
      <<Cluster(<<"dalet", "dagesh", "qamats">>, {})>>,
      <<Cluster(<<"vav", "dagesh">>, {"shureq"})>>,
      <<Cluster(<<"vav", "dagesh", "hiriq">>, {})>>,
      <<Cluster(<<"mem", "patah">>, {})>> }

\* Cluster.chars: the Char objects of cluster i of syllable s (0: this, 1: next)
CharsOf(cls, s, i) ==
    [k \in 1..Len(cls[i].chars) |->
        [text |-> cls[i].chars[k], syl |-> s, cl |-> i, k |-> k]]

RECURSIVE Concat(_)
Concat(ss) == IF ss = <<>> THEN <<>> ELSE Head(ss) \o Concat(Tail(ss))

\* Cluster.text ; SyllablePart.text : the texts of the characters in order
TextOf(chars) == [k \in 1..Len(chars) |-> chars[k].text]
ClusterText(c) == c.chars

(***************************************************************************)
(* Syllable parts.  A part is an object: `id` is its identity.             *)
(***************************************************************************)
\* new Consonant(chars, consonantType)
Consonant(chars, consonantType, id) ==
    [type |-> "C", chars |-> chars, consonantType |-> consonantType,
     id |-> id, syllable |-> "null"]

\* new Vowel(chars), new HebrewMark(chars), new NonHebrew(chars)
Vowel(chars, id) ==
    [type |-> "V", chars |-> chars, consonantType |-> "none",
     id |-> id, syllable |-> "null"]
HebrewMark(chars, id) ==
    [type |-> "H", chars |-> chars, consonantType |-> "none",
     id |-> id, syllable |-> "null"]
NonHebrew(chars, id) ==
    [type |-> "N", chars |-> chars, consonantType |-> "none",
     id |-> id, syllable |-> "null"]

partOfOnset(p) == p.consonantType = "OC"
partOfCoda(p) == p.consonantType # "OC"
fromGemination(p) == p.consonantType = "CGC"

\* The state of the walk of `parts`: the parts emitted so far, seenVowel, the
\* characters of the current cluster still to be read, the next free identity,
\* and whether a loop of the walk can no longer exit.
Push(w, p) == [w EXCEPT !.parts = Append(@, p), !.nid = @ + 1]
Replace(w, j, p) == [w EXCEPT !.parts[j] = p, !.nid = @ + 1]

\* the role chosen without regard to seenVowel
cTypeOnset(w) == "OC"

\* seenVowel ? ConsonantType.codaConsonant : ConsonantType.onsetConsonant
cType(w) == IF w.seenVowel THEN "CC" ELSE "OC"

\* lines 315-319: a shureq is a new Vowel of the first two characters
AddShureq(w, c) ==
    IF c.isShureq
    THEN [Push(w, Vowel(SliceTo(w.chars, 2), w.nid))
             EXCEPT !.seenVowel = TRUE, !.chars = SliceFrom(w.chars, 2)]
    ELSE w

\* lines 322-329: the index (1-based) of the last Vowel part at or below j, or 0
RECURSIVE LastVowel(_, _)
LastVowel(parts, j) ==
    IF j = 0 THEN 0
    ELSE IF parts[j].type = "V" THEN j
    ELSE LastVowel(parts, j - 1)

\* the merge of the mater with chars.slice(1) of line 326 forgotten
AddMaterKeeping(w, c) ==
    LET j == LastVowel(w.parts, Len(w.parts))
        mater == IF w.chars = <<>> THEN Undefined ELSE w.chars[1]
    IN  IF c.isMater /\ j > 0
        THEN [Replace(w, j, Vowel(Append(w.parts[j].chars, mater), w.nid))
                 EXCEPT !.seenVowel = TRUE]
        ELSE w

\* lines 321-330: a mater is one more character of the preceding Vowel
AddMater(w, c) ==
    LET j == LastVowel(w.parts, Len(w.parts))
        mater == IF w.chars = <<>> THEN Undefined ELSE w.chars[1]
    IN  IF c.isMater /\ j > 0
        THEN [Replace(w, j, Vowel(Append(w.parts[j].chars, mater), w.nid))
                 EXCEPT !.seenVowel = TRUE, !.chars = SliceFrom(w.chars, 1)]
        ELSE w

\* the check of line 335 with c.isPunctuation forgotten
OnlyNonHebrewAfter(cls, i) ==
    \A m \in (i + 1)..Len(cls) : cls[m].isNotHebrew

\* line 335: this.clusters.slice(i + 1).every((c) => c.isNotHebrew || c.isPunctuation)
OnlyPunctuationAfter(cls, i) ==
    \A m \in (i + 1)..Len(cls) : cls[m].isNotHebrew \/ cls[m].isPunctuation

\* lines 336-341: het or ayin with patah
FurtiveHetAyin(w) ==
    IF /\ Len(w.chars) >= 2
       /\ w.chars[1].text \in {"het", "ayin"}
       /\ w.chars[2].text = "patah"
    THEN LET v == Push(w, Vowel(<<w.chars[2]>>, w.nid))
         IN  [Push(v, Consonant(<<w.chars[1]>>, "CC", v.nid))
                 EXCEPT !.seenVowel = TRUE, !.chars = SliceFrom(w.chars, 2)]
    ELSE w

\* lines 342-352: he with dagesh and patah
FurtiveHe(w) ==
    IF /\ Len(w.chars) >= 3
       /\ w.chars[1].text = "he"
       /\ w.chars[2].text = "dagesh"
       /\ w.chars[3].text = "patah"
    THEN LET v == Push(w, Vowel(<<w.chars[3]>>, w.nid))
         IN  [Push(v, Consonant(SliceTo(w.chars, 2), "CC", v.nid))
                 EXCEPT !.seenVowel = TRUE, !.chars = SliceFrom(w.chars, 3)]
    ELSE w

\* lines 331-353
AddFurtivePatah(w, cls, i, final) ==
    IF final /\ OnlyPunctuationAfter(cls, i)
    THEN FurtiveHe(FurtiveHetAyin(w))
    ELSE w

\* lines 364-371: for (let j = parts.length - 1; j >= 0; j++), with j 0-based.
\* The result is the index of the Consonant found, -1 when the loop exits
\* without one, and -2 when j has passed the end of the array: every later
\* parts[j] is undefined and j only grows, so the loop cannot exit.
RECURSIVE LigatureSearch(_, _)
LigatureSearch(parts, j) ==
    IF ~(j >= 0) THEN -1
    ELSE IF j >= Len(parts) THEN -2
    ELSE IF parts[j + 1].type = "C" THEN j
    ELSE LigatureSearch(parts, j + 1)

\* lines 362-375: a dagesh or a ligature mark
AddLigature(w, char) ==
    LET j == LigatureSearch(w.parts, Len(w.parts) - 1)
    IN  IF j = -2 THEN [w EXCEPT !.loops = TRUE]
        ELSE IF j = -1 THEN Push(w, HebrewMark(<<char>>, w.nid))
        ELSE Replace(w, j + 1,
                     Consonant(Append(w.parts[j + 1].chars, char), cType(w), w.nid))

\* the walk with every sheva emitted as a Vowel
AddCharShevaVowel(w, char, i) ==
    LET pos == sequencePosition(char.text)
    IN  IF pos = 0 THEN Push(w, Consonant(<<char>>, cType(w), w.nid))
        ELSE IF pos = 1 \/ pos = 2 THEN AddLigature(w, char)
        ELSE IF pos = 3
             THEN [Push(w, Vowel(<<char>>, w.nid)) EXCEPT !.seenVowel = TRUE]
        ELSE IF hebChars(char.text) THEN Push(w, HebrewMark(<<char>>, w.nid))
        ELSE Push(w, NonHebrew(<<char>>, w.nid))

\* lines 355-394: one character of the walk
AddChar(w, char, i) ==
    LET pos == sequencePosition(char.text)
    IN  IF pos = 0 THEN Push(w, Consonant(<<char>>, cType(w), w.nid))
        ELSE IF pos = 1 \/ pos = 2 THEN AddLigature(w, char)
        ELSE IF pos = 3
             THEN IF char.text = "sheva" /\ i > 0
                  THEN Push(w, HebrewMark(<<char>>, w.nid))
                  ELSE [Push(w, Vowel(<<char>>, w.nid)) EXCEPT !.seenVowel = TRUE]
        ELSE IF hebChars(char.text) THEN Push(w, HebrewMark(<<char>>, w.nid))
        ELSE Push(w, NonHebrew(<<char>>, w.nid))

\* lines 354-395: for (const char of chars), i the 0-based cluster index
RECURSIVE AddChars(_, _, _)
AddChars(w, k, i) ==
    IF w.loops \/ k > Len(w.chars) THEN w
    ELSE AddChars(AddChar(w, w.chars[k], i), k + 1, i)

\* lines 312-396: for (let i = 0; i < this.clusters.length; i++), i 1-based here
RECURSIVE WalkClusters(_, _, _, _)
WalkClusters(w, cls, i, final) ==
    IF w.loops \/ i > Len(cls) THEN w
    ELSE LET w0 == [w EXCEPT !.chars = CharsOf(cls, 0, i)]
             w1 == AddMater(AddShureq(w0, cls[i]), cls[i])
             w2 == AddFurtivePatah(w1, cls, i, final)
         IN  WalkClusters(AddChars(w2, 1, i - 1), cls, i + 1, final)

\* /\u{05B0}/u.test(part.text)
HasSheva(p) == \E k \in 1..Len(p.chars) : p.chars[k].text = "sheva"

\* lines 399-407: hasNonShevaVowel and hasConsonantAfterVowel after the first
\* j parts
RECURSIVE Conditions(_, _)
Conditions(parts, j) ==
    IF j = 0 THEN [hasNonShevaVowel |-> FALSE, hasConsonantAfterVowel |-> FALSE]
    ELSE LET c == Conditions(parts, j - 1)
             p == parts[j]
         IN  IF p.type = "V" /\ ~HasSheva(p)
             THEN [c EXCEPT !.hasNonShevaVowel = TRUE]
             ELSE IF c.hasNonShevaVowel /\ p.type = "C"
                  THEN [c EXCEPT !.hasConsonantAfterVowel = TRUE]
                  ELSE c

\* line 402: part.text of a Vowel that holds `undefined` raises a TypeError
RaisesTypeError(parts) ==
    \E j \in 1..Len(parts) :
        parts[j].type = "V" /\ \E k \in 1..Len(parts[j].chars) : parts[j].chars[k] = Undefined

\* line 401 and line 424: part.syllable = this
WithSyllable(parts) == [j \in 1..Len(parts) |-> [parts[j] EXCEPT !.syllable = "this"]]

\* the gemination check with !this.isFinal forgotten
GeminatesWhenFinal(parts, final, nxt) ==
    /\ Conditions(parts, Len(parts)).hasNonShevaVowel
    /\ ~Conditions(parts, Len(parts)).hasConsonantAfterVowel
    /\ nxt.kind = "syllable"
    /\ Len(nxt.clusters) > 0
    /\ "dagesh" \in {ClusterText(nxt.clusters[1])[k] : k \in 1..Len(nxt.clusters[1].chars)}
    /\ ~nxt.clusters[1].isShureq

\* lines 413-421: the gemination check
Geminates(parts, final, nxt) ==
    /\ ~final
    /\ Conditions(parts, Len(parts)).hasNonShevaVowel
    /\ ~Conditions(parts, Len(parts)).hasConsonantAfterVowel
    /\ nxt.kind = "syllable"
    /\ Len(nxt.clusters) > 0
    /\ "dagesh" \in {ClusterText(nxt.clusters[1])[k] : k \in 1..Len(nxt.clusters[1].chars)}
    /\ ~nxt.clusters[1].isShureq

\* the characters of line 422 without the filter
GeminatedCharsUnfiltered(nxt) == CharsOf(nxt.clusters, 1, 1)

\* line 422: this.next.clusters[0].chars.filter((c) => c.sequencePosition <= 2)
GeminatedChars(nxt) ==
    SelectSeq(CharsOf(nxt.clusters, 1, 1), LAMBDA c : sequencePosition(c.text) <= 2)

\* lines 397-428: what the walk w leaves: the back-references, the gemination
\* check and the array, whose identity is id
FinishParts(w, final, nxt, id) ==
    IF w.loops THEN [kind |-> "hangs", nid |-> w.nid]
    ELSE IF RaisesTypeError(w.parts) THEN [kind |-> "TypeError", nid |-> w.nid]
    ELSE IF Geminates(w.parts, final, nxt)
         THEN [kind |-> "array", id |-> id, nid |-> w.nid + 1,
               elems |-> Append(WithSyllable(w.parts),
                                [Consonant(GeminatedChars(nxt), "CGC", w.nid)
                                    EXCEPT !.syllable = "this"])]
         ELSE [kind |-> "array", id |-> id, nid |-> w.nid, elems |-> WithSyllable(w.parts)]

\* lines 310-428: the computation of `parts` when nothing is cached; id is the
\* first free identity, which the array itself receives
ComputeParts(cls, final, nxt, id) ==
    FinishParts(WalkClusters([parts |-> <<>>, seenVowel |-> FALSE, chars |-> <<>>,
                              nid |-> id + 1, loops |-> FALSE], cls, 1, final),
                final, nxt, id)

\* the check of line 307 on the length of the cached array
PartsCachedNonEmpty(cache) == cache.kind = "array" /\ Len(cache.elems) > 0

\* line 307: if (this.#cachedParts)
PartsCached(cache) == cache.kind = "array"

(***************************************************************************)
(* Syllable structure.                                                     *)
(***************************************************************************)
\* the scan with the throw of line 467 forgotten
ScanPartNeverRaises(s, p) ==
    IF p.type = "C"
    THEN IF Len(s.nucleus) = 0
         THEN [s EXCEPT !.onset = Append(@, p)]
         ELSE [s EXCEPT !.coda = Append(@, p)]
    ELSE IF p.type = "V"
         THEN [s EXCEPT !.nucleus = Append(@, p)]
         ELSE s

\* the scan with line 457 testing coda.length instead of nucleus.length
ScanPartOnsetUntilCoda(s, p) ==
    IF p.type = "C"
    THEN IF Len(s.coda) = 0
         THEN [s EXCEPT !.onset = Append(@, p)]
         ELSE [s EXCEPT !.coda = Append(@, p)]
    ELSE IF p.type = "V"
         THEN IF Len(s.coda) = 0
              THEN [s EXCEPT !.nucleus = Append(@, p)]
              ELSE [s EXCEPT !.raised = TRUE]
         ELSE s

\* lines 456-469: one part p of the scan, s what the scan holds before it
ScanPart(s, p) ==
    IF p.type = "C"
    THEN IF Len(s.nucleus) = 0
         THEN [s EXCEPT !.onset = Append(@, p)]
         ELSE [s EXCEPT !.coda = Append(@, p)]
    ELSE IF p.type = "V"
         THEN IF Len(s.coda) = 0
              THEN [s EXCEPT !.nucleus = Append(@, p)]
              ELSE [s EXCEPT !.raised = TRUE]
         ELSE s

\* line 467: the throw ends the scan
ScanNext(s, p) == IF s.raised THEN s ELSE ScanPart(s, p)

\* lines 455-470: the scan of the first j parts
RECURSIVE Scan(_, _)
Scan(parts, j) ==
    IF j = 0 THEN [onset |-> <<>>, nucleus |-> <<>>, coda |-> <<>>, raised |-> FALSE]
    ELSE ScanNext(Scan(parts, j - 1), parts[j])

\* lines 471-473, or the raise of line 467
FinishStructure(s, id) ==
    IF s.raised THEN [kind |-> "Error"]
    ELSE [kind |-> "triple", id |-> id,
          onset |-> s.onset, nucleus |-> s.nucleus, coda |-> s.coda]

\* lines 452-473: the computation of `structure` from the parts
ComputeStructure(parts, id) == FinishStructure(Scan(parts, Len(parts)), id)

\* line 449: if (this.#cachedStructure)
StructureCached(cache) == cache.kind = "triple"

(***************************************************************************)
(* The accessors of one Syllable.                                          *)
(***************************************************************************)
\* lines 427-428: the result r of the computation is cached and returned, if
\* the computation completed
StoreParts(r, cache) ==
    IF r.kind = "array"
    THEN [kind |-> "array", fresh |-> TRUE, nid |-> r.nid,
          cache |-> [kind |-> "array", id |-> r.id, elems |-> r.elems]]
    ELSE [kind |-> r.kind, fresh |-> TRUE, nid |-> r.nid, cache |-> cache]

\* lines 306-429: get parts. The result names what the access yields, the
\* cache after it and the next free identity.
AccessParts(cache, cls, final, nxt, id) ==
    IF PartsCached(cache)
    THEN [kind |-> "array", fresh |-> FALSE, nid |-> id, cache |-> cache]
    ELSE StoreParts(ComputeParts(cls, final, nxt, id), cache)

\* the store with an empty triple cached when the scan raised
StoreStructureAlways(t, a, scache) ==
    IF t.kind = "triple"
    THEN [kind |-> "triple", scache |-> t, pcache |-> a.cache,
          nid |-> a.nid + 1, fresh |-> TRUE, parts |-> TRUE, partsFresh |-> a.fresh]
    ELSE [kind |-> "Error",
          scache |-> [kind |-> "triple", id |-> a.nid,
                      onset |-> <<>>, nucleus |-> <<>>, coda |-> <<>>],
          pcache |-> a.cache,
          nid |-> a.nid + 1, fresh |-> TRUE, parts |-> TRUE, partsFresh |-> a.fresh]

\* lines 471-473: the triple t computed from the parts that access a yielded
\* is cached and returned, unless the scan raised
StoreStructure(t, a, scache) ==
    IF t.kind = "triple"
    THEN [kind |-> "triple", scache |-> t, pcache |-> a.cache,
          nid |-> a.nid + 1, fresh |-> TRUE, parts |-> TRUE, partsFresh |-> a.fresh]
    ELSE [kind |-> "Error", scache |-> scache, pcache |-> a.cache,
          nid |-> a.nid, fresh |-> TRUE, parts |-> TRUE, partsFresh |-> a.fresh]

\* line 455: for (const p of this.parts), a the access of this.parts
ReadParts(a, scache) ==
    IF a.kind # "array"
    THEN [kind |-> a.kind, scache |-> scache, pcache |-> a.cache, nid |-> a.nid,
          fresh |-> TRUE, parts |-> TRUE, partsFresh |-> a.fresh]
    ELSE StoreStructure(ComputeStructure(a.cache.elems, a.nid), a, scache)

\* lines 448-474: get structure, which reads this.parts when nothing is cached
AccessStructure(scache, pcache, cls, final, nxt, id) ==
    IF StructureCached(scache)
    THEN [kind |-> "triple", scache |-> scache, pcache |-> pcache, nid |-> id,
          fresh |-> FALSE, parts |-> FALSE, partsFresh |-> FALSE]
    ELSE ReadParts(AccessParts(pcache, cls, final, nxt, id), scache)

Running == ret.kind # "hangs"

First(first, kind, id) == IF first = 0 /\ kind \in {"array", "triple"} THEN id ELSE first

\* syllable.parts
GetParts ==
    /\ Running
    /\ \E a \in {AccessParts(cachedParts, clusters, isFinal, next, nextId)} :
           /\ cachedParts' = a.cache
           /\ nextId' = a.nid
           /\ ret' = [op |-> "parts", kind |-> a.kind, fresh |-> a.fresh,
                      partsFresh |-> a.fresh,
                      id |-> IF a.kind = "array" THEN a.cache.id ELSE 0]
           /\ firstParts' = IF a.kind = "array" THEN First(firstParts, a.kind, a.cache.id)
                            ELSE firstParts
    /\ UNCHANGED <<clusters, isFinal, next, cachedStructure, firstStructure>>
    /\ UNCHANGED <<flagVars, hwVars, textVars, linkVars, graphVars>>

\* syllable.structure
GetStructure ==
    /\ Running
    /\ \E a \in {AccessStructure(cachedStructure, cachedParts, clusters,
                                   isFinal, next, nextId)} :
           /\ cachedParts' = a.pcache
           /\ cachedStructure' = a.scache
           /\ nextId' = a.nid
           /\ ret' = [op |-> "structure", kind |-> a.kind, fresh |-> a.fresh,
                      partsFresh |-> a.partsFresh,
                      id |-> IF a.kind = "triple" THEN a.scache.id ELSE 0]
           /\ firstParts' = IF a.parts /\ a.pcache.kind = "array"
                            THEN First(firstParts, a.pcache.kind, a.pcache.id)
                            ELSE firstParts
           /\ firstStructure' = IF a.kind = "triple"
                                THEN First(firstStructure, a.kind, a.scache.id)
                                ELSE firstStructure
    /\ UNCHANGED <<clusters, isFinal, next>>
    /\ UNCHANGED <<flagVars, hwVars, textVars, linkVars, graphVars>>

(***************************************************************************)
(* The vowel of one Syllable.  A vowel name is written in capitals, a      *)
(* string is the sequence of the names of its characters.                  *)
(***************************************************************************)
\* Cluster.hasVowel: the cluster holds a vowel point other than sheva
hasVowel(c) == \E k \in 1..Len(c.chars) : c.chars[k] \in Vowels \ {"sheva"}

\* lines 79-81: get text
SyllableText(cls) == Concat([i \in 1..Len(cls) |-> ClusterText(cls[i])])

VowelNames == {"PATAH", "QAMATS", "HIRIQ", "SHEVA", "SHUREQ"}
\* names of properties that every object inherits from Object.prototype
InheritedNames == {"constructor", "toString"}
\* the names hasVowelName is called with
NamePool == {"PATAH", "SHEVA", "SHUREQ", "constructor", "TEST"}

\* lines 30-34: sylNameToCharMap[name], a string, an inherited function or
\* undefined
sylNameToCharMap(name) ==
    CASE name = "PATAH" -> [kind |-> "string", text |-> <<"patah">>]
      [] name = "QAMATS" -> [kind |-> "string", text |-> <<"qamats">>]
      [] name = "HIRIQ" -> [kind |-> "string", text |-> <<"hiriq">>]
      [] name = "SHEVA" -> [kind |-> "string", text |-> <<"sheva">>]
      [] name = "SHUREQ" -> [kind |-> "string", text |-> <<"vav", "dagesh">>]
      [] name \in InheritedNames -> [kind |-> "function", text |-> <<"function">>]
      [] OTHER -> [kind |-> "undefined", text |-> <<>>]

\* String.prototype.indexOf(sub) !== -1
Includes(t, sub) ==
    \E k \in 0..(Len(t) - Len(sub)) : SubSeq(t, k + 1, k + Len(sub)) = sub

\* lines 204-216: hasVowelName(name)
hasVowelName(cls, name) ==
    IF sylNameToCharMap(name).kind = "undefined"
    THEN [kind |-> "Error", value |-> FALSE]
    ELSE IF name = "SHUREQ"
    THEN [kind |-> "boolean", value |-> \E i \in 1..Len(cls) : cls[i].isShureq]
    ELSE [kind |-> "boolean",
          value |-> /\ ~(name = "SHEVA" /\ \E i \in 1..Len(cls) : hasVowel(cls[i]))
                    /\ Includes(SyllableText(cls), sylNameToCharMap(name).text)]

\* syllable.hasVowelName(name)
HasVowelName ==
    /\ Running
    /\ \E name \in NamePool :
           ret' = [op |-> "hasVowelName", kind |-> hasVowelName(clusters, name).kind,
                   fresh |-> FALSE, partsFresh |-> FALSE, id |-> 0,
                   name |-> name, value |-> hasVowelName(clusters, name).value]
    /\ UNCHANGED <<clusters, isFinal, next, cachedParts, cachedStructure, nextId,
                   firstParts, firstStructure>>
    /\ UNCHANGED <<flagVars, hwVars, textVars, linkVars, graphVars>>

\* lines 18-22, 117-119: vowel in sylCharToNameMap
isVowelKeyOfSyllableCharToNameMap(v) ==
    v \in {<<"patah">>, <<"qamats">>, <<"hiriq">>, <<"sheva">>, <<"vav", "dagesh">>}

\* lines 18-22: sylCharToNameMap[vowel], for a key
sylCharToNameMap(v) ==
    CASE v = <<"patah">> -> "PATAH"
      [] v = <<"qamats">> -> "QAMATS"
      [] v = <<"hiriq">> -> "HIRIQ"
      [] v = <<"sheva">> -> "SHEVA"
      [] v = <<"vav", "dagesh">> -> "SHUREQ"

\* line 140: this.nucleus.map((p) => p.text).join("")
NucleusText(nucleus) == Concat([j \in 1..Len(nucleus) |-> TextOf(nucleus[j].chars)])

\* line 148: this.text.match(vowelsCaptureGroupWithSheva), the first vowel
\* point of the text, sheva included, or null
MatchVowel(t) ==
    IF \E k \in 1..Len(t) : t[k] \in Vowels
    THEN [kind |-> "string",
          text |-> <<t[CHOOSE k \in 1..Len(t) :
                          t[k] \in Vowels /\ \A m \in 1..(k - 1) : t[m] \notin Vowels]>>]
    ELSE [kind |-> "null", text |-> <<>>]

\* the vowel without the search of the text of the syllable
VowelFromNucleusOnly(nucleus, t) ==
    IF isVowelKeyOfSyllableCharToNameMap(nucleus)
    THEN [kind |-> "string", text |-> nucleus]
    ELSE [kind |-> "null", text |-> <<>>]

\* lines 143-153: the vowel, from the text of the nucleus and the text of the
\* syllable
VowelFrom(nucleus, t) ==
    IF isVowelKeyOfSyllableCharToNameMap(nucleus)
    THEN [kind |-> "string", text |-> nucleus]
    ELSE IF isVowelKeyOfSyllableCharToNameMap(MatchVowel(t).text)
    THEN MatchVowel(t)
    ELSE [kind |-> "null", text |-> <<>>]

\* lines 139-154: get vowel, a the access of this.structure that this.nucleus
\* makes; when that access does not return, neither does this one
Vowel_(a, cls) ==
    IF a.kind # "triple" THEN [kind |-> a.kind, text |-> <<>>]
    ELSE VowelFrom(NucleusText(a.scache.nucleus), SyllableText(cls))

\* lines 174-177: get vowelName, v the result of this.vowel
VowelName_(v) ==
    IF v.kind = "string" THEN [kind |-> "string", text |-> sylCharToNameMap(v.text)]
    ELSE IF v.kind = "null" THEN [kind |-> "null", text |-> ""]
    ELSE [kind |-> v.kind, text |-> ""]

\* the caches and the bookkeeping after the access a of this.structure
StructureAccessed(a) ==
    /\ cachedParts' = a.pcache
    /\ cachedStructure' = a.scache
    /\ nextId' = a.nid
    /\ firstParts' = IF a.parts /\ a.pcache.kind = "array"
                     THEN First(firstParts, a.pcache.kind, a.pcache.id)
                     ELSE firstParts
    /\ firstStructure' = IF a.kind = "triple"
                         THEN First(firstStructure, a.kind, a.scache.id)
                         ELSE firstStructure

\* syllable.vowel
GetVowel ==
    /\ Running
    /\ \E a \in {AccessStructure(cachedStructure, cachedParts, clusters,
                                   isFinal, next, nextId)} :
           /\ StructureAccessed(a)
           /\ \E v \in {Vowel_(a, clusters)} :
                  ret' = [op |-> "vowel", kind |-> v.kind, fresh |-> a.fresh,
                          partsFresh |-> a.partsFresh, id |-> 0, value |-> v.text]
    /\ UNCHANGED <<clusters, isFinal, next>>
    /\ UNCHANGED <<flagVars, hwVars, textVars, linkVars, graphVars>>

\* syllable.vowelName
GetVowelName ==
    /\ Running
    /\ \E a \in {AccessStructure(cachedStructure, cachedParts, clusters,
                                   isFinal, next, nextId)} :
           /\ StructureAccessed(a)
           /\ \E v \in {Vowel_(a, clusters)} :
                  ret' = [op |-> "vowelName", kind |-> VowelName_(v).kind,
                          fresh |-> a.fresh, partsFresh |-> a.partsFresh, id |-> 0,
                          vowel |-> v, value |-> VowelName_(v).text]
    /\ UNCHANGED <<clusters, isFinal, next>>
    /\ UNCHANGED <<flagVars, hwVars, textVars, linkVars, graphVars>>

\* lines 479-502: structure[0], structure[1], structure[2], and structure[2]
\* without the parts that come from gemination
StructurePart(which, t) ==
    CASE which = "onset" -> t.onset
      [] which = "nucleus" -> t.nucleus
      [] which = "coda" -> t.coda
      [] which = "codaNoGemination" -> SelectSeq(t.coda, LAMBDA q : ~fromGemination(q))

\* syllable.onset, syllable.nucleus, syllable.coda, syllable.codaNoGemination
GetStructurePart ==
    /\ Running
    /\ \E a \in {AccessStructure(cachedStructure, cachedParts, clusters,
                                   isFinal, next, nextId)} :
           /\ StructureAccessed(a)
           /\ \E which \in {"onset", "nucleus", "coda", "codaNoGemination"} :
                  ret' = [op |-> which, kind |-> IF a.kind = "triple" THEN "array" ELSE a.kind,
                          fresh |-> a.fresh, partsFresh |-> a.partsFresh, id |-> 0,
                          value |-> IF a.kind = "triple"
                                    THEN StructurePart(which, a.scache) ELSE <<>>]
    /\ UNCHANGED <<clusters, isFinal, next>>
    /\ UNCHANGED <<flagVars, hwVars, textVars, linkVars, graphVars>>

\* lines 113-115: get chars
SyllableChars(cls) == Concat([i \in 1..Len(cls) |-> CharsOf(cls, 0, i)])

\* lines 79-81, 95-97, 113-115: syllable.text, syllable.clusters, syllable.chars
GetClusters ==
    /\ Running
    /\ \E which \in {"text", "clusters", "chars"} :
           ret' = [op |-> which, kind |-> "value", fresh |-> FALSE, partsFresh |-> FALSE,
                   id |-> 0,
                   value |-> CASE which = "text" -> SyllableText(clusters)
                               [] which = "clusters" -> clusters
                               [] which = "chars" -> SyllableChars(clusters)]
    /\ UNCHANGED <<clusters, isFinal, next, cachedParts, cachedStructure, nextId,
                   firstParts, firstStructure>>
    /\ UNCHANGED <<flagVars, hwVars, textVars, linkVars, graphVars>>

\* no Text has been split into words
NoWords == shape = <<>> /\ links = <<>> /\ read = Idle

\* nothing has been read off the following syllable
NoGraph ==
    /\ nextCachedParts = Null
    /\ heap = <<>> /\ children = Null /\ got = Idle /\ invocations = 0

NextSyllables ==
    {Null} \cup {[kind |-> "syllable", clusters |-> c] : c \in NextPool}

\* new Syllable(clusters, { isFinal }), linked to its following syllable or to none
Init ==
    /\ clusters \in SeqsUpTo(ClusterPool, MaxClusters)
    /\ isFinal \in BOOLEAN
    /\ next \in NextSyllables
    /\ cachedParts = Null
    /\ cachedStructure = Null
    /\ nextId = 1
    /\ ret = NoAccess
    /\ firstParts = 0
    /\ firstStructure = 0
    /\ isClosed = FALSE /\ isAccented = FALSE /\ wordOf = Null /\ previous = Null
    /\ word = <<>> /\ options = Idle /\ hwOut = Idle
    /\ text = <<>> /\ textOut = Idle
    /\ NoWords
    /\ NoGraph

Next ==
    \/ GetParts \/ GetStructure \/ GetStructurePart \/ GetClusters
    \/ HasVowelName \/ GetVowel \/ GetVowelName

Spec == Init /\ [][Next]_vars

(***************************************************************************)
(* Properties of `parts` and `structure`.                                  *)
(***************************************************************************)
\* the latest access computed `parts` and the computation completed
JustComputedParts == ret.partsFresh /\ cachedParts.kind = "array"

Parts == cachedParts.elems
LastPart == Parts[Len(Parts)]
EndsGeminated == Len(Parts) > 0 /\ LastPart.type = "C" /\ LastPart.consonantType = "CGC"
\* the indices of the parts emitted by the walk of the syllable's own clusters
OwnIdx == IF EndsGeminated THEN 1..(Len(Parts) - 1) ELSE 1..Len(Parts)
NonShevaVowelAt(j) ==
    Parts[j].type = "V" /\ \A k \in 1..Len(Parts[j].chars) : Parts[j].chars[k].text # "sheva"
NextHasDagesh ==
    /\ next.kind = "syllable"
    /\ Len(next.clusters) > 0
    /\ \E k \in 1..Len(next.clusters[1].chars) : next.clusters[1].chars[k] = "dagesh"
    /\ ~next.clusters[1].isShureq

\* C1 as stated: after `parts` is computed, it ends with a geminated coda part
\* if and only if the syllable is non-final, has a non-sheva Vowel part, has no
\* coda Consonant part, and the following syllable's first cluster has a dagesh
\* and is not a shureq.
C1_AsStated ==
    JustComputedParts =>
        (EndsGeminated <=>
            /\ ~isFinal
            /\ \E j \in OwnIdx : NonShevaVowelAt(j)
            /\ ~\E j \in OwnIdx : Parts[j].type = "C" /\ partOfCoda(Parts[j])
            /\ NextHasDagesh)

\* C1 amended: after `parts` is computed, it ends with exactly one geminated
\* coda part if and only if the syllable is non-final, has a non-sheva Vowel
\* part, has no Consonant part after its first non-sheva Vowel part, and the
\* following syllable's first cluster has a dagesh and is not a shureq; in every
\* other case no part is a geminated coda.
C1_Gemination ==
    JustComputedParts =>
        /\ EndsGeminated <=>
            /\ ~isFinal
            /\ \E j \in OwnIdx : NonShevaVowelAt(j)
            /\ \A j, k \in OwnIdx : NonShevaVowelAt(j) /\ j < k => Parts[k].type # "C"
            /\ NextHasDagesh
        /\ \A j \in OwnIdx : Parts[j].consonantType # "CGC"

\* a geminated coda was appended to a syllable that already holds a Consonant of
\* role coda, after a sheva and before its vowel
C1_Witness ==
    /\ JustComputedParts
    /\ EndsGeminated
    /\ \E j \in OwnIdx : Parts[j].type = "C" /\ partOfCoda(Parts[j])

\* a Vowel part occurs after a Consonant part that follows a Vowel part
VowelAfterCoda ==
    \E i, j, k \in 1..Len(Parts) :
        i < j /\ j < k /\ Parts[i].type = "V" /\ Parts[j].type = "C" /\ Parts[k].type = "V"

PartIndex(p) == CHOOSE j \in 1..Len(Parts) : Parts[j].id = p.id
Range(seq) == {seq[j] : j \in 1..Len(seq)}

\* C2: `structure` raises the structural-contradiction error if and only if a
\* Vowel part occurs in `parts` after a coda Consonant part; otherwise it returns
\* a triple in which every nucleus Vowel precedes every coda Consonant.
C2_StructureRaises ==
    ret.op = "structure" /\ ret.kind \in {"triple", "Error"} =>
        /\ ret.kind = "Error" <=> VowelAfterCoda
        /\ ret.kind = "triple" =>
            \A v \in Range(cachedStructure.nucleus), c \in Range(cachedStructure.coda) :
                PartIndex(v) < PartIndex(c)

\* `structure` raised on a syllable whose parts hold a vowel after a coda
C2_Witness == ret.op = "structure" /\ ret.kind = "Error" /\ VowelAfterCoda

\* C3: every access of `parts` returns the array object of the first access, and
\* every successful access of `structure` the triple object of the first one.
C3_Cached ==
    /\ ret.op = "parts" /\ ret.kind = "array" =>
           ret.id = firstParts /\ ret.id = cachedParts.id
    /\ ret.op = "structure" /\ ret.kind = "triple" =>
           ret.id = firstStructure /\ ret.id = cachedStructure.id

\* a later access of `parts` returned the cached empty list
C3_Witness ==
    /\ ret.op = "parts" /\ ret.kind = "array" /\ ~ret.fresh
    /\ cachedParts.elems = <<>>
    /\ cachedStructure.kind = "triple"

FirstVowelIdx ==
    IF \E j \in 1..Len(Parts) : Parts[j].type = "V"
    THEN CHOOSE j \in 1..Len(Parts) :
             Parts[j].type = "V" /\ \A m \in 1..(j - 1) : Parts[m].type # "V"
    ELSE Len(Parts) + 1
Before(j) == SubSeq(Parts, 1, j - 1)
After(j) == SubSeq(Parts, j + 1, Len(Parts))
IsConsonant(p) == p.type = "C"
IsVowel(p) == p.type = "V"
IsConsonantOrVowel(p) == p.type \in {"C", "V"}

\* C4: whenever `structure` returns, onset ++ nucleus ++ coda is the sequence of
\* the Consonant and Vowel parts of `parts`, the same objects in the same order:
\* the Consonants before the first Vowel, all the Vowels, the Consonants after it.
C4_StructureIsParts ==
    ret.op = "structure" /\ ret.kind = "triple" =>
        /\ cachedStructure.onset \o cachedStructure.nucleus \o cachedStructure.coda
               = SelectSeq(Parts, IsConsonantOrVowel)
        /\ cachedStructure.onset = SelectSeq(Before(FirstVowelIdx), IsConsonant)
        /\ cachedStructure.coda = SelectSeq(After(FirstVowelIdx), IsConsonant)
        /\ cachedStructure.nucleus = SelectSeq(Parts, IsVowel)

\* `structure` returned an onset, a nucleus and a coda next to a part that is
\* in none of them
C4_Witness ==
    /\ ret.op = "structure" /\ ret.kind = "triple"
    /\ cachedStructure.onset # <<>>
    /\ cachedStructure.nucleus # <<>>
    /\ cachedStructure.coda # <<>>
    /\ \E j \in 1..Len(Parts) : Parts[j].type \in {"H", "N"}

\* the cluster begins with het or ayin and patah, or with he, dagesh and patah
FurtiveShape(c) ==
    \/ Len(c.chars) >= 2 /\ c.chars[1] \in {"het", "ayin"} /\ c.chars[2] = "patah"
    \/ Len(c.chars) >= 3 /\ c.chars[1] = "he" /\ c.chars[2] = "dagesh" /\ c.chars[3] = "patah"
CharAt(i, k) == [text |-> clusters[i].chars[k], syl |-> 0, cl |-> i, k |-> k]
PatahAt(i) == IF clusters[i].chars[1] = "he" THEN CharAt(i, 3) ELSE CharAt(i, 2)
OnlyPunctuationFollows(i) ==
    \A m \in (i + 1)..Len(clusters) : clusters[m].isNotHebrew \/ clusters[m].isPunctuation
Ids(seq) == {seq[j].id : j \in 1..Len(seq)}

\* the patah of cluster i is a Vowel part right before the coda Consonant of its letter
FurtiveOrder(i) ==
    \E j \in 1..(Len(Parts) - 1) :
        /\ Parts[j].type = "V" /\ Parts[j].chars = <<PatahAt(i)>>
        /\ Parts[j + 1].type = "C" /\ Parts[j + 1].chars[1] = CharAt(i, 1)
        /\ Parts[j + 1].consonantType = "CC"
        /\ cachedStructure.kind = "triple" =>
               /\ Parts[j + 1].id \in Ids(cachedStructure.coda)
               /\ Parts[j + 1].id \notin Ids(cachedStructure.onset)

\* the Consonant of the letter of cluster i is right before the Vowel of its patah
PlainOrder(i) ==
    \E j \in 1..(Len(Parts) - 1) :
        /\ Parts[j].type = "C" /\ Parts[j].chars[1] = CharAt(i, 1)
        /\ Parts[j + 1].type = "V" /\ Parts[j + 1].chars[1] = PatahAt(i)

\* C5: in a final syllable, a het or ayin with patah, or a he with dagesh and
\* patah, followed only by non-Hebrew or punctuation clusters, yields the patah
\* Vowel right before the letter's coda Consonant (which `structure` places in
\* the coda, not the onset); in a non-final syllable, or before a later Hebrew
\* cluster, it yields the Consonant first and the patah Vowel after it.
C5_FurtivePatah ==
    JustComputedParts =>
        \A i \in 1..Len(clusters) :
            FurtiveShape(clusters[i]) =>
                IF isFinal /\ OnlyPunctuationFollows(i)
                THEN FurtiveOrder(i)
                ELSE PlainOrder(i)

\* a furtive patah before a sof pasuq, with the structure computed
C5_Witness ==
    /\ JustComputedParts
    /\ cachedStructure.kind = "triple"
    /\ isFinal
    /\ \E i \in 1..(Len(clusters) - 1) :
           /\ FurtiveShape(clusters[i])
           /\ clusters[i + 1].isPunctuation
           /\ FurtiveOrder(i)

\* C6: every access of `parts` and of `structure` completes, by returning a
\* value or by raising an error.
C6_Terminates == ret.kind # "hangs"

(***************************************************************************)
(* holemWaw.  A word is the sequence of its characters, each written by    *)
(* its name; offsets are 0-based as in the source.                         *)
(***************************************************************************)
WordAlphabet == {"vav", "holem", "holemHaser", "patah", "lamed", "taam", "space"}

\* /[\u{05B0}-\u{05BB}\u{05C7}]/u
IsVowelPoint(c) == c \in {"patah", "qamats", "hiriq", "sheva", "holem", "holemHaser"}
IsTaam(c) == c = "taam"
IsKept(c) == ~IsTaam(c)

\* a JavaScript number: an integer or NaN
Num(n) == [nan |-> FALSE, n |-> n]
NaN == [nan |-> TRUE, n |-> 0]

\* String.prototype.substring(from): NaN counts as 0, the rest is clamped
Substring(w, from) ==
    IF from.nan THEN w ELSE SubSeq(w, Max(0, Min(from.n, Len(w))) + 1, Len(w))

\* String.prototype.substring(0, to)
SubstringTo(w, to) == SubSeq(w, 1, Max(0, Min(to, Len(w))))

\* String.prototype.trim() leaves a non-empty string
TrimsToNonEmpty(w) == \E k \in 1..Len(w) : w[k] # "space"

Has(w, c) == \E k \in 1..Len(w) : w[k] = c
FirstIndex(w, c) == CHOOSE k \in 1..Len(w) : w[k] = c /\ \A m \in 1..(k - 1) : w[m] # c

\* String.prototype.replace(regex, by) with a regex matching the first c
ReplaceFirst(w, c, by) ==
    IF Has(w, c)
    THEN SubSeq(w, 1, FirstIndex(w, c) - 1) \o by \o SubSeq(w, FirstIndex(w, c) + 1, Len(w))
    ELSE w

\* lines 183-186: replace holem haser with regular holem
RemoveHolemHaser(w, opts) ==
    IF opts.holemHaser = "remove" /\ Has(w, "holemHaser")
    THEN ReplaceFirst(w, "holemHaser", <<"holem">>)
    ELSE w

\* wawHolemRegX.test(word)
HasWawHolem(w) == \E k \in 1..(Len(w) - 1) : w[k] = "vav" /\ w[k + 1] = "holem"

\* line 189: nothing to check
NothingToCheck(w) == ~Has(w, "vav") \/ ~Has(w, "holem") \/ ~HasWawHolem(w)

\* removeTaamim(word)[0]: the word without its cantillation marks
NoTaamim(w) == SelectSeq(w, IsKept)

\* removeTaamim(word)[1]: for each character kept, its offset in the word
RECURSIVE CharPos(_, _)
CharPos(w, k) ==
    IF k > Len(w) THEN <<>>
    ELSE IF IsKept(w[k]) THEN <<k - 1>> \o CharPos(w, k + 1)
    ELSE CharPos(w, k + 1)

\* the matches with the lookbehind (?<!vowels) forgotten
RECURSIVE MatchesAnyWawHolem(_, _)
MatchesAnyWawHolem(s, i) ==
    IF i + 1 >= Len(s) THEN <<>>
    ELSE IF s[i + 1] = "vav" /\ s[i + 2] = "holem"
         THEN <<i>> \o MatchesAnyWawHolem(s, i + 2)
         ELSE MatchesAnyWawHolem(s, i + 1)

\* lines 181, 198: the offsets in s, in order, of the matches of vav + holem
\* not preceded by a vowel point
RECURSIVE Matches(_, _)
Matches(s, i) ==
    IF i + 1 >= Len(s) THEN <<>>
    ELSE IF /\ s[i + 1] = "vav"
            /\ s[i + 2] = "holem"
            /\ (i = 0 \/ ~IsVowelPoint(s[i]))
         THEN <<i>> \o Matches(s, i + 2)
         ELSE Matches(s, i + 1)

\* line 205: charPos[match[0].length] + start, undefined + start being NaN
End(charPos, start) == IF Len(charPos) > 2 THEN Num(charPos[3] + start) ELSE NaN

Minus1(x) == IF x.nan THEN x ELSE Num(x.n - 1)

\* line 209: word.substring(end).trim() ? word.substring(end) : word.substring(end - 1)
Rest(w, end) ==
    IF TrimsToNonEmpty(Substring(w, end)) THEN Substring(w, end) ELSE Substring(w, Minus1(end))

\* lines 204-209: the word after the match at offset index of the stripped view
Splice(w, charPos, index) ==
    SubstringTo(w, charPos[index + 1])
        \o <<"holem", "vav">>
        \o ReplaceFirst(Rest(w, End(charPos, charPos[index + 1])), "holem", <<>>)

\* lines 203-210: for (const match of matches), from the m-th match on
RECURSIVE SpliceAll(_, _, _, _)
SpliceAll(w, charPos, matches, m) ==
    IF m > Len(matches) THEN w
    ELSE SpliceAll(Splice(w, charPos, matches[m]), charPos, matches, m + 1)

\* lines 193-212, w the word after line 186
Correct(w) ==
    IF NothingToCheck(w) THEN w
    ELSE SpliceAll(w, CharPos(w, 1), Matches(NoTaamim(w), 0), 1)

\* lines 175-213
holemWaw(w, opts) == Correct(RemoveHolemHaser(w, opts))

\* holemWaw(word, options)
CallHolemWaw ==
    /\ hwOut = Idle
    /\ hwOut' = [kind |-> "returned", value |-> holemWaw(word, options)]
    /\ UNCHANGED <<word, options>>
    /\ UNCHANGED <<sylVars, flagVars, textVars, linkVars, graphVars>>

NoSyllable ==
    /\ clusters = <<>> /\ isFinal = FALSE /\ next = Null
    /\ cachedParts = Null /\ cachedStructure = Null /\ nextId = 1
    /\ ret = NoAccess /\ firstParts = 0 /\ firstStructure = 0
    /\ isClosed = FALSE /\ isAccented = FALSE /\ wordOf = Null /\ previous = Null

InitHW ==
    /\ word \in SeqsUpTo(WordAlphabet, MaxWordLen)
    /\ options \in {[holemHaser |-> "remove"], [holemHaser |-> "unset"]}
    /\ hwOut = Idle
    /\ NoSyllable
    /\ NoWords
    /\ NoGraph
    /\ text = <<>> /\ textOut = Idle

NextHW == CallHolemWaw

SpecHW == InitHW /\ [][NextHW]_vars

(***************************************************************************)
(* Text.  The constructor validates its input string and settles its       *)
(* options.  A string is a sequence of character names; an option is       *)
(* "true", "false" or "undefined", a schema is "traditional", "tiberian"   *)
(* or "undefined".                                                         *)
(***************************************************************************)
TextAlphabet == {"alef", "patah", "qamatsQatan", "dagesh", "comma", "taam", "space"}

\* the character class of U+05B0 to U+05BC, the comma and U+05C7
InNiqqudClass(c) ==
    c \in {"sheva", "hiriq", "patah", "qamats", "holem", "holemHaser", "dagesh",
           "comma", "qamatsQatan"}

SylOpts(qametsQatan, sqnmlvy, longVowels, wawShureq, schema) ==
    [qametsQatan |-> qametsQatan, sqnmlvy |-> sqnmlvy, longVowels |-> longVowels,
     wawShureq |-> wawShureq, schema |-> schema]

OptionPool ==
    { SylOpts("undefined", "undefined", "undefined", "undefined", "undefined"),
      SylOpts("undefined", "undefined", "undefined", "undefined", "traditional"),
      SylOpts("undefined", "undefined", "undefined", "undefined", "tiberian"),
      SylOpts("undefined", "undefined", "false", "undefined", "undefined"),
      SylOpts("false", "undefined", "undefined", "false", "undefined"),
      SylOpts("true", "false", "undefined", "undefined", "tiberian") }

\* the options object a Text keeps: the schema presets carry the key
\* vavShureq, the defaults carry the key wawShureq
Kept(qametsQatan, sqnmlvy, longVowels, wawShureq, vavShureq) ==
    [qametsQatan |-> qametsQatan, sqnmlvy |-> sqnmlvy, longVowels |-> longVowels,
     wawShureq |-> wawShureq, vavShureq |-> vavShureq]

validateInput(t) ==
    IF ~(\E k \in 1..Len(t) : InNiqqudClass(t[k]))
    THEN [kind |-> "error", message |-> "Text must contain niqqud"]
    ELSE [kind |-> "ok", value |-> t]

setSchemaOptions(schema) ==
    IF schema = "traditional"
    THEN Kept("true", "true", "true", "undefined", "true")
    ELSE Kept("false", "true", "false", "undefined", "false")

setDefaultOptions(opts) ==
    Kept(IF opts.qametsQatan # "undefined" THEN opts.qametsQatan ELSE "true",
         IF opts.sqnmlvy # "undefined" THEN opts.sqnmlvy ELSE "true",
         IF opts.longVowels # "undefined" THEN opts.longVowels ELSE "true",
         IF opts.wawShureq # "undefined" THEN opts.wawShureq ELSE "true",
         "undefined")

setOptions(opts) ==
    IF opts.schema # "undefined" THEN setSchemaOptions(opts.schema)
    ELSE setDefaultOptions(opts)

\* new Text(text, options)
Construct ==
    /\ textOut = Idle
    /\ textOut' = IF validateInput(text).kind = "error"
                  THEN validateInput(text)
                  ELSE [kind |-> "constructed", original |-> validateInput(text).value,
                        options |-> setOptions(options)]
    /\ UNCHANGED <<text, word, options, hwOut>>
    /\ UNCHANGED <<sylVars, flagVars, linkVars, graphVars>>

InitText ==
    /\ text \in SeqsUpTo(TextAlphabet, MaxTextLen)
    /\ options \in OptionPool
    /\ textOut = Idle
    /\ NoSyllable
    /\ NoWords
    /\ NoGraph
    /\ word = <<>> /\ hwOut = Idle

NextText == Construct

SpecText == InitText /\ [][NextText]_vars

(***************************************************************************)
(* The assignments to one Syllable: its flags, its word and its links.     *)
(***************************************************************************)
\* what an assignment leaves in ret
Assigned == [op |-> "set", kind |-> "void", fresh |-> FALSE, partsFresh |-> FALSE, id |-> 0]

\* the syllables the assignments are exercised on
AssignedSyllables ==
    { <<>>,
      <<Cluster(<<"mem", "patah">>, {})>>,
      <<Cluster(<<"ayin", "patah">>, {})>>,
      <<Cluster(<<"shin", "shindot", "sheva">>, {}), Cluster(<<"mem", "patah">>, {})>>,
      <<Cluster(<<"mem", "hiriq", "taam">>, {}), Cluster(<<"yod">>, {"mater"})>> }

WordPool == {Null, [kind |-> "word"]}
PreviousPool == {Null, [kind |-> "syllable", clusters |-> <<Cluster(<<"mem", "patah">>, {})>>]}

\* an assignment of isFinal that drops both caches
SetIsFinalInvalidating ==
    /\ Running
    /\ \E final \in BOOLEAN : isFinal' = final
    /\ cachedParts' = Null /\ cachedStructure' = Null
    /\ ret' = Assigned
    /\ UNCHANGED <<clusters, next, nextId, firstParts, firstStructure>>
    /\ UNCHANGED <<flagVars, hwVars, textVars, linkVars, graphVars>>

\* lines 288-290: syllable.isFinal = final
SetIsFinal ==
    /\ Running
    /\ \E final \in BOOLEAN : isFinal' = final
    /\ ret' = Assigned
    /\ UNCHANGED <<clusters, next, cachedParts, cachedStructure, nextId,
                   firstParts, firstStructure>>
    /\ UNCHANGED <<flagVars, hwVars, textVars, linkVars, graphVars>>

\* lines 240-242: syllable.isClosed = closed
SetIsClosed ==
    /\ Running
    /\ \E closed \in BOOLEAN : isClosed' = closed
    /\ ret' = Assigned
    /\ UNCHANGED <<clusters, isFinal, next, cachedParts, cachedStructure, nextId,
                   firstParts, firstStructure>>
    /\ UNCHANGED <<isAccented, wordOf, previous>>
    /\ UNCHANGED <<hwVars, textVars, linkVars, graphVars>>

\* lines 266-268: syllable.isAccented = accented
SetIsAccented ==
    /\ Running
    /\ \E accented \in BOOLEAN : isAccented' = accented
    /\ ret' = Assigned
    /\ UNCHANGED <<clusters, isFinal, next, cachedParts, cachedStructure, nextId,
                   firstParts, firstStructure>>
    /\ UNCHANGED <<isClosed, wordOf, previous>>
    /\ UNCHANGED <<hwVars, textVars, linkVars, graphVars>>

\* lines 508-510: syllable.word = word
SetWord ==
    /\ Running
    /\ \E w \in WordPool : wordOf' = w
    /\ ret' = Assigned
    /\ UNCHANGED <<clusters, isFinal, next, cachedParts, cachedStructure, nextId,
                   firstParts, firstStructure>>
    /\ UNCHANGED <<isClosed, isAccented, previous>>
    /\ UNCHANGED <<hwVars, textVars, linkVars, graphVars>>

\* Node: syllable.next = node
SetNext ==
    /\ Running
    /\ \E n \in NextSyllables : next' = n
    /\ ret' = Assigned
    /\ UNCHANGED <<clusters, isFinal, cachedParts, cachedStructure, nextId,
                   firstParts, firstStructure>>
    /\ UNCHANGED <<flagVars, hwVars, textVars, linkVars, graphVars>>

\* Node: syllable.prev = node
SetPrevious ==
    /\ Running
    /\ \E n \in PreviousPool : previous' = n
    /\ ret' = Assigned
    /\ UNCHANGED <<clusters, isFinal, next, cachedParts, cachedStructure, nextId,
                   firstParts, firstStructure>>
    /\ UNCHANGED <<isClosed, isAccented, wordOf>>
    /\ UNCHANGED <<hwVars, textVars, linkVars, graphVars>>

\* new Syllable(clusters, { isClosed, isAccented, isFinal })
InitAssign ==
    /\ clusters \in AssignedSyllables
    /\ isFinal \in BOOLEAN
    /\ isClosed \in BOOLEAN
    /\ isAccented \in BOOLEAN
    /\ next = Null /\ previous = Null /\ wordOf = Null
    /\ cachedParts = Null /\ cachedStructure = Null /\ nextId = 1
    /\ ret = NoAccess /\ firstParts = 0 /\ firstStructure = 0
    /\ word = <<>> /\ options = Idle /\ hwOut = Idle
    /\ text = <<>> /\ textOut = Idle
    /\ NoWords
    /\ NoGraph

NextAssign ==
    \/ GetParts \/ GetStructure
    \/ SetIsFinal \/ SetIsClosed \/ SetIsAccented \/ SetWord \/ SetNext \/ SetPrevious

SpecAssign == InitAssign /\ [][NextAssign]_vars

(***************************************************************************)
(* The syllables of the words of a Text.  Syllable i of word w is named    *)
(* by the pair <<w, i>>; a Word links its own syllables into a chain when  *)
(* its syllables are read.                                                 *)
(***************************************************************************)
SylRef(w, i) == [kind |-> "syllable", w |-> w, i |-> i]

SylIds(sh) ==
    {id \in (1..MaxWords) \X (1..MaxSyllables) : id[1] <= Len(sh) /\ id[2] <= sh[id[1]]}

\* a Syllable as constructed: no next, no prev, no word
Unlinked == [next |-> Null, prev |-> Null, word |-> 0]

\* the chain continued into the following word
NextOfThroughText(sh, w, i) ==
    IF i < sh[w] THEN SylRef(w, i + 1)
    ELSE IF w < Len(sh) THEN SylRef(w + 1, 1)
    ELSE Null

\* Node.next of syllable i of word w, once the word has linked its syllables
NextOf(sh, w, i) == IF i < sh[w] THEN SylRef(w, i + 1) ELSE Null

\* Node.prev of syllable i of word w, once the word has linked its syllables
PrevOf(sh, w, i) == IF i > 1 THEN SylRef(w, i - 1) ELSE Null

\* word.syllables: the word links its syllables and becomes their word
WordSyllables ==
    /\ \E w \in 1..Len(shape) :
           links' = [id \in DOMAIN links |->
                        IF id[1] = w
                        THEN [next |-> NextOf(shape, w, id[2]),
                              prev |-> PrevOf(shape, w, id[2]),
                              word |-> w]
                        ELSE links[id]]
    /\ UNCHANGED <<shape, read>>
    /\ UNCHANGED <<sylVars, flagVars, hwVars, textVars, graphVars>>

\* syllable.next, as the gemination rule reads it
GetNext ==
    /\ \E id \in DOMAIN links :
           read' = [syl |-> id, dir |-> "next", value |-> links[id].next]
    /\ UNCHANGED <<shape, links>>
    /\ UNCHANGED <<sylVars, flagVars, hwVars, textVars, graphVars>>

\* syllable.prev
GetPrevious ==
    /\ \E id \in DOMAIN links :
           read' = [syl |-> id, dir |-> "prev", value |-> links[id].prev]
    /\ UNCHANGED <<shape, links>>
    /\ UNCHANGED <<sylVars, flagVars, hwVars, textVars, graphVars>>

InitWords ==
    /\ shape \in SeqsUpTo(1..MaxSyllables, MaxWords) \ {<<>>}
    /\ links = [id \in SylIds(shape) |-> Unlinked]
    /\ read = Idle
    /\ NoGraph
    /\ NoSyllable
    /\ word = <<>> /\ options = Idle /\ hwOut = Idle
    /\ text = <<>> /\ textOut = Idle

NextWords == WordSyllables \/ GetNext \/ GetPrevious

SpecWords == InitWords /\ [][NextWords]_vars

(***************************************************************************)
(* A Syllable and the syllable that follows it.  The two share the         *)
(* characters of the following syllable's clusters; each computes and      *)
(* caches its own parts.                                                   *)
(***************************************************************************)
\* the parts that the following syllable computes: their characters are the
\* characters of its clusters and their syllable is the following syllable
OfNext(r) ==
    IF r.kind # "array" THEN r
    ELSE [r EXCEPT !.cache.elems =
              [j \in 1..Len(r.cache.elems) |->
                  [r.cache.elems[j] EXCEPT
                      !.syllable = "next",
                      !.chars = [k \in 1..Len(r.cache.elems[j].chars) |->
                                    [r.cache.elems[j].chars[k] EXCEPT !.syl = 1]]]]]

\* lines 306-429 on the following syllable, which is final or not and has no
\* known follower
AccessNextParts(cache, nxt, final, id) ==
    IF PartsCached(cache)
    THEN AccessParts(cache, nxt.clusters, final, Null, id)
    ELSE OfNext(AccessParts(cache, nxt.clusters, final, Null, id))

\* syllable.next.parts
GetNextParts ==
    /\ Running
    /\ next.kind = "syllable"
    /\ \E final \in BOOLEAN :
           \E a \in {AccessNextParts(nextCachedParts, next, final, nextId)} :
               /\ nextCachedParts' = a.cache
               /\ nextId' = a.nid
               /\ ret' = [op |-> "next.parts", kind |-> a.kind, fresh |-> a.fresh,
                          partsFresh |-> FALSE,
                          id |-> IF a.kind = "array" THEN a.cache.id ELSE 0]
    /\ UNCHANGED <<clusters, isFinal, next, cachedParts, cachedStructure,
                   firstParts, firstStructure>>
    /\ UNCHANGED <<flagVars, hwVars, textVars, linkVars>>
    /\ UNCHANGED <<heap, children, got, invocations>>

InitPair == Init

NextPair == GetParts \/ GetNextParts \/ GetStructurePart

SpecPair == InitPair /\ [][NextPair]_vars

(***************************************************************************)
(* The graph of a Text.  Every accessor of the Text builds Word objects,   *)
(* and Syllable objects under them, from the sanitized string.  An object  *)
(* is its place in `heap`.                                                 *)
(***************************************************************************)
GraphAlphabet == {"patah", "vav", "holem", "space"}

\* String.prototype.trim
RECURSIVE TrimStart(_)
TrimStart(t) == IF t # <<>> /\ Head(t) = "space" THEN TrimStart(Tail(t)) ELSE t
RECURSIVE TrimEnd(_)
TrimEnd(t) ==
    IF t # <<>> /\ t[Len(t)] = "space" THEN TrimEnd(SubSeq(t, 1, Len(t) - 1)) ELSE t
Trim(t) == TrimEnd(TrimStart(t))

\* split(splitGroup) without the empty entries: each group is a run of
\* characters other than the space with the spaces that follow it; cur is the
\* group being read
RECURSIVE SplitGroups(_, _)
SplitGroups(t, cur) ==
    IF t = <<>> THEN (IF cur = <<>> THEN <<>> ELSE <<cur>>)
    ELSE IF Head(t) # "space" /\ cur # <<>> /\ cur[Len(cur)] = "space"
         THEN <<cur>> \o SplitGroups(Tail(t), <<Head(t)>>)
         ELSE SplitGroups(Tail(t), Append(cur, Head(t)))

\* lines 76-85: get sanitized.  The words hold no qamats, which is all that
\* the qamets qatan pass converts, and each letter holds one mark at most,
\* which leaves the sequencing nothing to reorder.
Sanitized(original) ==
    Concat([k \in 1..Len(SplitGroups(Trim(original), <<>>)) |->
               holemWaw(SplitGroups(Trim(original), <<>>)[k], [holemHaser |-> "unset"])])

\* line 98-99: this.sanitized.split(splitGroup).filter((group) => group)
Groups(original) == SplitGroups(Sanitized(original), <<>>)

\* new Word(word, this.options)
WordObject(t, opts, pos, inv) ==
    [kind |-> "word", text |-> t, options |-> opts, pos |-> pos, inv |-> inv]

\* new Syllable(clusters): syllable i of the word at `pos`, with empty caches
SyllableObject(w, pos, i, inv) ==
    [kind |-> "syllable", word |-> w, pos |-> pos, i |-> i, inv |-> inv,
     cachedParts |-> Null]

\* the Word objects kept from the first invocation on
NewWordsMemoized(ch, groups, opts, hp, inv) ==
    IF hp # <<>> THEN [ids |-> ch, heap |-> hp]
    ELSE [ids |-> [k \in 1..Len(groups) |-> Len(hp) + k],
          heap |-> hp \o [k \in 1..Len(groups) |-> WordObject(groups[k], opts, k, inv)]]

\* line 100: groups.map((word) => new Word(word, this.options)), whatever the
\* children ch of the Text are
NewWords(ch, groups, opts, hp, inv) ==
    [ids |-> [k \in 1..Len(groups) |-> Len(hp) + k],
     heap |-> hp \o [k \in 1..Len(groups) |-> WordObject(groups[k], opts, k, inv)]]

\* the number of syllables of a word: one for each vowel point, one at least
SyllableCount(t) ==
    Max(1, Cardinality({k \in 1..Len(t) : t[k] \in {"patah", "holem"}}))

\* line 109: word.syllables of the words ws from the k-th on, concatenated
RECURSIVE NewSyllables(_, _, _, _)
NewSyllables(hp, ws, k, inv) ==
    IF k > Len(ws) THEN [ids |-> <<>>, heap |-> hp]
    ELSE LET n == SyllableCount(hp[ws[k]].text)
             made == [i \in 1..n |-> SyllableObject(ws[k], hp[ws[k]].pos, i, inv)]
             rest == NewSyllables(hp \o made, ws, k + 1, inv)
         IN  [ids |-> [i \in 1..n |-> Len(hp) + i] \o rest.ids, heap |-> rest.heap]

\* lines 90-92: the texts of the words, concatenated
TextOfWords(hp, ws) == Concat([k \in 1..Len(ws) |-> hp[ws[k]].text])

\* lines 90-124: text.text, text.words, text.syllables, text.clusters and
\* text.chars.  Each reads text.words; the last three read word.syllables of
\* every word.
TextAccess ==
    /\ textOut.kind = "constructed"
    /\ invocations < MaxInvocations
    /\ \E nw \in {NewWords(children, Groups(textOut.original), textOut.options,
                            heap, invocations + 1)} :
       \E ns \in {NewSyllables(nw.heap, nw.ids, 1, invocations + 1)} :
       \E which \in {"text", "words", "syllables", "clusters", "chars"} :
           /\ children' = nw.ids
           /\ heap' = IF which \in {"text", "words"} THEN nw.heap ELSE ns.heap
           /\ got' = [op |-> which, before |-> Len(heap),
                      value |-> CASE which = "words" -> nw.ids
                                  [] which = "syllables" -> ns.ids
                                  [] OTHER -> TextOfWords(nw.heap, nw.ids)]
    /\ invocations' = invocations + 1
    /\ UNCHANGED nextCachedParts
    /\ UNCHANGED <<sylVars, flagVars, hwVars, textVars, linkVars>>

\* syllable.parts on a Syllable object that the caller holds: the first
\* syllable of a word of any invocation
SyllableParts ==
    /\ \E o \in 1..Len(heap) :
           /\ heap[o].kind = "syllable"
           /\ heap[o].i = 1
           /\ heap' = [heap EXCEPT ![o].cachedParts = [kind |-> "array"]]
           /\ got' = [op |-> "parts", before |-> Len(heap), value |-> <<o>>]
    /\ UNCHANGED <<nextCachedParts, children, invocations>>
    /\ UNCHANGED <<sylVars, flagVars, hwVars, textVars, linkVars>>

InitGraph ==
    /\ text \in SeqsUpTo(GraphAlphabet, MaxTextLen)
    /\ options \in {o \in OptionPool : o.qametsQatan # "undefined"}
    /\ textOut = Idle
    /\ NoSyllable
    /\ NoWords
    /\ NoGraph
    /\ word = <<>> /\ hwOut = Idle

NextGraph == Construct \/ TextAccess \/ SyllableParts

SpecGraph == InitGraph /\ [][NextGraph]_vars

(***************************************************************************)
(* Properties of holemWaw.                                                 *)
(***************************************************************************)
Returned == hwOut.kind = "returned"
Count(w, c) == Cardinality({k \in 1..Len(w) : w[k] = c})
NotWawNorHolem(c) == c \notin {"vav", "holem"}

\* C7: the cantillation marks of the output of holemWaw are, in order, the
\* cantillation marks of the word it was given.
C7_TaamimPreserved ==
    Returned => SelectSeq(hwOut.value, IsTaam) = SelectSeq(word, IsTaam)

\* the word with every vav + holem that starts at one of the offsets turned
\* into holem + vav
Swapped(w, offsets) ==
    [k \in 1..Len(w) |->
        IF \E m \in 1..Len(offsets) : offsets[m] = k - 1 THEN "holem"
        ELSE IF \E m \in 1..Len(offsets) : offsets[m] = k - 2 THEN "vav"
        ELSE w[k]]

\* C8: with holemHaser unset, holemWaw turns each vav + holem that no vowel
\* point precedes into holem + vav and changes nothing else: the output has the
\* length and the characters of the word, the other characters in their order.
C8_OnlyTargetsChange ==
    Returned /\ options.holemHaser = "unset" =>
        /\ Len(hwOut.value) = Len(word)
        /\ \A c \in WordAlphabet : Count(hwOut.value, c) = Count(word, c)
        /\ SelectSeq(hwOut.value, NotWawNorHolem) = SelectSeq(word, NotWawNorHolem)
        /\ ~Has(word, "taam") => hwOut.value = Swapped(word, Matches(word, 0))

Stripped(w) == SelectSeq(w, LAMBDA c : c # "taam")
\* every vav + holem of the stripped view s follows a vowel point
AllAfterVowel(s) ==
    \A k \in 1..(Len(s) - 1) :
        s[k] = "vav" /\ s[k + 1] = "holem" => k > 1 /\ IsVowelPoint(s[k - 1])
\* the word holds no candidate
NoCandidate(w) ==
    \/ \A k \in 1..Len(w) : w[k] # "vav"
    \/ \A k \in 1..Len(w) : w[k] # "holem"
    \/ \A k \in 1..(Len(w) - 1) : ~(w[k] = "vav" /\ w[k + 1] = "holem")
    \/ AllAfterVowel(Stripped(w))

\* C9 as stated: holemWaw returns, and when the word holds no candidate it
\* returns the word it was given.
C9_AsStated ==
    hwOut # Idle => Returned /\ (NoCandidate(word) => hwOut.value = word)

\* the word as the holem haser step leaves it
Normalised == RemoveHolemHaser(word, options)

\* C9 amended: holemWaw returns for every word, and when the word, after the
\* holemHaser normalisation, holds no candidate, it returns that normalised
\* word, which is the word it was given when holemHaser is unset.
C9_NoCandidate ==
    hwOut # Idle => Returned /\ (NoCandidate(Normalised) => hwOut.value = Normalised)

\* a word whose only vav + holem follows a vowel point once its holem haser is
\* normalised, returned normalised
C9_Witness ==
    /\ Returned
    /\ Normalised # word
    /\ \E k \in 1..(Len(Normalised) - 1) : Normalised[k] = "vav" /\ Normalised[k + 1] = "holem"
    /\ NoCandidate(Normalised)
    /\ hwOut.value = Normalised

(***************************************************************************)
(* Properties of Text.                                                     *)
(***************************************************************************)
HasVowelPoint(t) ==
    \E k \in 1..Len(t) :
        t[k] \in {"sheva", "hiriq", "patah", "qamats", "holem", "holemHaser", "qamatsQatan"}

\* C10: constructing a Text raises the validation error exactly when the
\* input string holds no vowel point: a string of consonants, commas or bare
\* dagesh is refused, a string with a vowel point is accepted.
C10_ErrorIffNoVowelPoint ==
    textOut # Idle => (textOut.kind = "error" <=> ~HasVowelPoint(text))

\* C11: a Text constructed with a schema keeps the preset of that schema
\* whatever booleans came with it: for "traditional" sqnmlvy, longVowels,
\* wawShureq and qametsQatan are true; for "tiberian" sqnmlvy is true and
\* longVowels, wawShureq and qametsQatan are false.
C11_SchemaPreset ==
    textOut.kind = "constructed" /\ options.schema # "undefined" =>
        LET kept == textOut.options
        IN  IF options.schema = "traditional"
            THEN /\ kept.sqnmlvy = "true" /\ kept.longVowels = "true"
                 /\ kept.wawShureq = "true" /\ kept.qametsQatan = "true"
            ELSE /\ kept.sqnmlvy = "true" /\ kept.longVowels = "false"
                 /\ kept.wawShureq = "false" /\ kept.qametsQatan = "false"

(***************************************************************************)
(* Properties of the vowel accessors.                                      *)
(***************************************************************************)
\* C12: hasVowelName raises if and only if the name is outside the recognized
\* vowel names, on any syllable, and returns a boolean for a recognized name.
C12_RaisesIffUnrecognized ==
    ret.op = "hasVowelName" =>
        /\ ret.kind = "Error" <=> ret.name \notin VowelNames
        /\ ret.name \in VowelNames => ret.kind = "boolean"

\* what vowelName yields on the syllable as it stands
VowelNameNow ==
    VowelName_(Vowel_(AccessStructure(cachedStructure, cachedParts, clusters,
                                      isFinal, next, nextId), clusters))
HasShevaPoint == \E k \in 1..Len(SyllableText(clusters)) : SyllableText(clusters)[k] = "sheva"
HasOtherVowel ==
    \/ \E k \in 1..Len(SyllableText(clusters)) :
           SyllableText(clusters)[k] \in {"patah", "qamats", "hiriq"}
    \/ \E i \in 1..Len(clusters) : clusters[i].isShureq

\* C13: hasVowelName("SHEVA") returns true only on a syllable that holds a
\* sheva and whose vowelName is "SHEVA", and returns false on a syllable that
\* holds a sheva together with another vowel point or a shureq.
C13_ShevaOnlyWhenVowel ==
    ret.op = "hasVowelName" /\ ret.name = "SHEVA" =>
        /\ ret.value => HasShevaPoint /\ VowelNameNow = [kind |-> "string", text |-> "SHEVA"]
        /\ HasShevaPoint /\ HasOtherVowel => ~ret.value

\* a single vowel point, sheva included, or the two characters of a shureq
RecognizedVowel(v) ==
    \/ Len(v) = 1 /\ v[1] \in {"patah", "qamats", "hiriq", "sheva"}
    \/ v = <<"vav", "dagesh">>
NameOf(v) ==
    IF v = <<"vav", "dagesh">> THEN "SHUREQ"
    ELSE IF v = <<"patah">> THEN "PATAH"
    ELSE IF v = <<"qamats">> THEN "QAMATS"
    ELSE IF v = <<"hiriq">> THEN "HIRIQ"
    ELSE "SHEVA"
VowelPointsOf(t) == SelectSeq(t, LAMBDA c : c \in {"patah", "qamats", "hiriq", "sheva"})
\* the vowel the claim describes, for the nucleus text n and the syllable text t
ExpectedVowel(n, t) ==
    IF RecognizedVowel(n) THEN [kind |-> "string", text |-> n]
    ELSE IF VowelPointsOf(t) # <<>> THEN [kind |-> "string", text |-> <<Head(VowelPointsOf(t))>>]
    ELSE [kind |-> "null", text |-> <<>>]

\* C14: when `vowel` returns, it is the text of the nucleus if that text is a
\* recognized vowel, else the first vowel point of the text of the syllable,
\* else null; `vowelName` is the name of that vowel, and null exactly when
\* `vowel` is null.
C14_Vowel ==
    /\ ret.op = "vowel" /\ ret.kind \in {"string", "null"} =>
           [kind |-> ret.kind, text |-> ret.value]
               = ExpectedVowel(NucleusText(cachedStructure.nucleus), SyllableText(clusters))
    /\ ret.op = "vowelName" /\ ret.kind \in {"string", "null"} =>
           /\ ret.vowel = ExpectedVowel(NucleusText(cachedStructure.nucleus),
                                        SyllableText(clusters))
           /\ ret.kind = "null" <=> ret.vowel.kind = "null"
           /\ ret.kind = "string" => ret.value = NameOf(ret.vowel.text)

\* the vowel of a nucleus that holds a vowel point and its mater is the vowel
\* point alone
C14_Witness ==
    /\ ret.op = "vowelName" /\ ret.kind = "string"
    /\ Len(NucleusText(cachedStructure.nucleus)) = 2
    /\ ~RecognizedVowel(NucleusText(cachedStructure.nucleus))
    /\ ret.vowel.text = <<NucleusText(cachedStructure.nucleus)[1]>>

(***************************************************************************)
(* Properties of the chain of syllables.                                   *)
(***************************************************************************)
SameWordOrNull(id, ref) == ref = Null \/ (ref.kind = "syllable" /\ ref.w = id[1])

\* C15: the next of the last syllable of a word and the prev of the first
\* syllable of a word are null, also when another word follows or precedes;
\* the next and the prev of every syllable are null or a syllable of its word,
\* and so is every value read from them.
C15_LinksWithinWord ==
    /\ \A id \in DOMAIN links :
           /\ SameWordOrNull(id, links[id].next)
           /\ SameWordOrNull(id, links[id].prev)
           /\ id[2] = shape[id[1]] => links[id].next = Null
           /\ id[2] = 1 => links[id].prev = Null
    /\ read # Idle => SameWordOrNull(read.syl, read.value)

\* the next of the last syllable of the first word was read as null while the
\* second word has linked its syllables too
C15_Witness ==
    /\ read # Idle
    /\ read.dir = "next" /\ read.syl = <<1, shape[1]>> /\ read.value = Null
    /\ Len(shape) >= 2
    /\ links[<<1, 1>>].word = 1 /\ links[<<2, 1>>].word = 2

(***************************************************************************)
(* Properties of the caches under assignment.                              *)
(***************************************************************************)
\* C16: once `parts` (`structure`) is cached, every step, an assignment of
\* isFinal, isClosed, isAccented, word, next or prev included, leaves the cache
\* as it is, and every later access returns the object of the first access
\* without computing anything.
C16_CachesKept ==
    [][/\ cachedParts.kind = "array" =>
              /\ cachedParts' = cachedParts
              /\ ret'.op = "parts" =>
                     ret'.kind = "array" /\ ret'.id = firstParts /\ ~ret'.fresh
              /\ ret'.op = "structure" => ~ret'.partsFresh
       /\ cachedStructure.kind = "triple" =>
              /\ cachedStructure' = cachedStructure
              /\ ret'.op = "structure" =>
                     ret'.kind = "triple" /\ ret'.id = firstStructure /\ ~ret'.fresh
              /\ nextId' = nextId]_vars

\* `parts` returned the cached list with its geminated coda after the syllable
\* was made final, and the structure cached before is still there
C16_Witness ==
    /\ ret.op = "parts" /\ ret.kind = "array" /\ ~ret.fresh /\ ret.id = firstParts
    /\ EndsGeminated
    /\ isFinal
    /\ cachedStructure.kind = "triple"

(***************************************************************************)
(* Properties of the structural-contradiction error.                       *)
(***************************************************************************)
\* the accessors that request `structure`
StructureOps ==
    {"structure", "onset", "nucleus", "coda", "codaNoGemination", "vowel", "vowelName"}
StructureFailed == ret.op \in StructureOps /\ ret.kind = "Error"

\* C17: the structural-contradiction error is raised only by a request of
\* `structure`, direct or through onset, nucleus, coda, codaNoGemination, vowel
\* or vowelName: the construction, `parts`, `text`, `clusters`, `chars` and
\* hasVowelName with a recognized name never raise it.  When such a request
\* fails the structure cache holds nothing and the parts cache holds the parts,
\* and on that syllable every request of `structure` raises.
C17_RaisedByStructureOnly ==
    /\ ret.op \in {"none", "parts", "text", "clusters", "chars"} => ret.kind # "Error"
    /\ ret.op = "hasVowelName" /\ ret.name \in VowelNames => ret.kind # "Error"
    /\ StructureFailed =>
           cachedStructure = Null /\ cachedParts.kind = "array" /\ VowelAfterCoda
    /\ cachedParts.kind = "array" /\ VowelAfterCoda =>
           /\ cachedStructure = Null
           /\ ret.op \in StructureOps => ret.kind = "Error"

\* vowelName raised on a syllable whose parts were cached before, and nothing
\* is in the structure cache
C17_Witness ==
    /\ ret.op = "vowelName" /\ ret.kind = "Error" /\ ~ret.partsFresh
    /\ cachedStructure = Null
    /\ cachedParts.kind = "array"

(***************************************************************************)
(* Properties of the dagesh and the ligature marks in `parts`.             *)
(***************************************************************************)
\* the characters of sequence class 1 or 2 of the clusters of the syllable
LigatureChars ==
    {c \in Range(SyllableChars(clusters)) : sequencePosition(c.text) \in {1, 2}}
\* the indices of the parts that hold the character c
Holders(c) == {j \in 1..Len(Parts) : c \in Range(Parts[j].chars)}
\* c sits in a Consonant, in the Vowel of a shureq, or alone in a HebrewMark
\* that no Consonant part precedes
WellPlaced(c) ==
    \E j \in Holders(c) :
        /\ Holders(c) = {j}
        /\ Parts[j].type \in {"C", "V", "H"}
        /\ Parts[j].type = "H" =>
               /\ Parts[j].chars = <<c>>
               /\ \A m \in 1..(j - 1) : Parts[m].type # "C"

\* C18: a walk of `parts` that meets a dagesh or a ligature mark completes,
\* with the mark appended to a Consonant part when one was emitted before it
\* and as a HebrewMark of its own otherwise, whatever part was emitted last.
C18_LigatureExtends ==
    ret.op = "parts" /\ LigatureChars # {} =>
        /\ ret.kind = "array"
        /\ \A c \in LigatureChars : WellPlaced(c)

(***************************************************************************)
(* Properties of the spans and of the holem haser of holemWaw.             *)
(***************************************************************************)
\* the offset in w of offset k of its stripped view; the end of the stripped
\* view maps to the end of w
Mapped(w, k) == IF k < Len(CharPos(w, 1)) THEN CharPos(w, 1)[k + 1] ELSE Len(w)

\* cur with the span of the m-th match and of the later ones replaced by
\* holem + vav, the spans being mapped from the stripped view of w
RECURSIVE SpansReplaced(_, _, _, _)
SpansReplaced(cur, w, matches, m) ==
    IF m > Len(matches) THEN cur
    ELSE SpansReplaced(SubSeq(cur, 1, Mapped(w, matches[m]))
                           \o <<"holem", "vav">>
                           \o SubSeq(cur, Mapped(w, matches[m] + 2) + 1, Len(cur)),
                       w, matches, m + 1)

\* C19: for each match at offsets [i, i + 2) of the stripped view, holemWaw
\* replaces in the word exactly the span from the offset mapped from i to the
\* offset mapped from i + 2, wherever the match and the cantillation marks are,
\* for the first match and for the later ones.
C19_SpanReplaced ==
    Returned /\ options.holemHaser = "unset" /\ ~NothingToCheck(word) =>
        hwOut.value = SpansReplaced(word, word, Matches(NoTaamim(word), 0), 1)

\* C20: with holemHaser = "remove" the output of holemWaw holds no holem
\* haser; with holemHaser unset the holem haser of the word are all in the
\* output.
C20_HolemHaserRemoved ==
    Returned =>
        IF options.holemHaser = "remove"
        THEN ~Has(hwOut.value, "holemHaser")
        ELSE Count(hwOut.value, "holemHaser") = Count(word, "holemHaser")

(***************************************************************************)
(* Properties of the mater letters in `parts`.                             *)
(***************************************************************************)
\* the mater letter of cluster i: its first character
MaterLetter(i) == CharsOf(clusters, 0, i)[1]
\* the part at j is a Vowel that holds c after the characters it held before
AppendedToVowel(c, j) ==
    /\ Parts[j].type = "V"
    /\ \E k \in 2..Len(Parts[j].chars) : Parts[j].chars[k] = c
\* a cluster before cluster i gives the walk a Vowel part
VowelBefore(i) ==
    \E m \in 1..(i - 1) :
        \/ clusters[m].isShureq
        \/ \E k \in 1..Len(clusters[m].chars) :
               /\ clusters[m].chars[k] \in Vowels
               /\ clusters[m].chars[k] = "sheva" => m = 1

GeminatedIdx == {j \in 1..Len(Parts) : Parts[j].type = "C" /\ fromGemination(Parts[j])}
\* the characters of sequence class 0 to 2 of the first cluster of the
\* following syllable, in order
DoubledChars ==
    SelectSeq([k \in 1..Len(next.clusters[1].chars) |->
                  [text |-> next.clusters[1].chars[k], syl |-> 1, cl |-> 1, k |-> k]],
              LAMBDA c : c.text \in Consonants \cup {"dagesh", "shindot"})
\* the identities of the parts of the following syllable
NextPartIds ==
    IF nextCachedParts.kind = "array"
    THEN {nextCachedParts.elems[m].id : m \in 1..Len(nextCachedParts.elems)}
    ELSE {}

\* C22: when `parts` holds a part from gemination, that part is the last
\* element and the only one from gemination; it is a Consonant that is none of
\* the parts of the following syllable; its characters are the characters of
\* sequence class 0 to 2 of the following syllable's first cluster in order;
\* the syllable of every part is the current syllable; and codaNoGemination
\* is coda without that part.
C22_GeminatedPart ==
    cachedParts.kind = "array" /\ GeminatedIdx # {} =>
        /\ GeminatedIdx = {Len(Parts)}
        /\ LastPart.chars = DoubledChars
        /\ LastPart.id \notin NextPartIds
        /\ \A j \in 1..Len(Parts) : Parts[j].id = LastPart.id => j = Len(Parts)
        /\ \A j \in 1..Len(Parts) : Parts[j].syllable = "this"
        /\ ret.op = "coda" /\ ret.kind = "array" =>
               /\ Len(ret.value) > 0
               /\ ret.value[Len(ret.value)] = LastPart
        /\ ret.op = "codaNoGemination" /\ ret.kind = "array" =>
               cachedStructure.coda = Append(ret.value, LastPart)

\* codaNoGemination was read on a syllable whose geminated part doubles a
\* first cluster that holds a vowel point, and the following syllable has
\* computed its own parts, with the same characters in its first part
C22_Witness ==
    /\ cachedParts.kind = "array" /\ GeminatedIdx # {}
    /\ ret.op = "codaNoGemination" /\ ret.kind = "array"
    /\ nextCachedParts.kind = "array"
    /\ Len(LastPart.chars) < Len(next.clusters[1].chars)
    /\ nextCachedParts.elems[1].chars = LastPart.chars
    /\ nextCachedParts.elems[1].id # LastPart.id

(***************************************************************************)
(* Properties of the vowel points in `parts`.                              *)
(***************************************************************************)
\* the vowel points of the clusters of the syllable
VowelPoints == {c \in Range(SyllableChars(clusters)) : sequencePosition(c.text) = 3}
\* a sheva that lies in another cluster than the first
LaterSheva(c) == c.text = "sheva" /\ c.cl > 1
\* c is alone in a HebrewMark part and in no other part
IsHebrewMark(c) ==
    \E j \in Holders(c) :
        Holders(c) = {j} /\ Parts[j].type = "H" /\ Parts[j].chars = <<c>>
\* c opens a Vowel part and is in no other part
OpensVowel(c) ==
    \E j \in Holders(c) :
        Holders(c) = {j} /\ Parts[j].type = "V" /\ Parts[j].chars[1] = c
\* the shevas of the nucleus lie in the first cluster
NucleusShevaIsFirst ==
    cachedStructure.kind = "triple" =>
        \A j \in 1..Len(cachedStructure.nucleus) :
            \A k \in 1..Len(cachedStructure.nucleus[j].chars) :
                cachedStructure.nucleus[j].chars[k].text = "sheva" =>
                    cachedStructure.nucleus[j].chars[k].cl = 1
\* the only vowel point of the syllable is a sheva in its first cluster
OnlyFirstSheva ==
    /\ VowelPoints # {}
    /\ \A c \in VowelPoints : c.text = "sheva" /\ c.cl = 1
\* the nucleus is the one Vowel part that the sheva of the first cluster opens
ShevaIsNucleus ==
    cachedStructure.kind = "triple" =>
        /\ Len(cachedStructure.nucleus) = 1
        /\ cachedStructure.nucleus[1].chars[1] \in VowelPoints
NoShureq == \A i \in 1..Len(clusters) : ~clusters[i].isShureq

\* C23 as stated: in the parts, a vowel point is a new Vowel part, except a
\* sheva in another cluster than the first, which is a HebrewMark part; a
\* sheva of the nucleus lies in the first cluster; a syllable whose only vowel
\* point is a sheva in its first cluster has that sheva as nucleus and no
\* geminated coda.
C23_AsStated ==
    cachedParts.kind = "array" =>
        /\ \A c \in VowelPoints :
               IF LaterSheva(c) THEN IsHebrewMark(c) ELSE OpensVowel(c)
        /\ NucleusShevaIsFirst
        /\ OnlyFirstSheva => ShevaIsNucleus /\ GeminatedIdx = {}

\* C23 amended: as stated, the last clause for a syllable whose only vowel
\* point is a sheva in its first cluster and which holds no shureq.
C23_ShevaNucleus ==
    cachedParts.kind = "array" =>
        /\ \A c \in VowelPoints :
               IF LaterSheva(c) THEN IsHebrewMark(c) ELSE OpensVowel(c)
        /\ NucleusShevaIsFirst
        /\ OnlyFirstSheva /\ NoShureq => ShevaIsNucleus /\ GeminatedIdx = {}

\* a non-final syllable before a dagesh whose only vowel point is the sheva of
\* its first cluster, with a consonant after it: the sheva is the nucleus and
\* nothing is geminated
C23_Witness ==
    /\ cachedParts.kind = "array" /\ cachedStructure.kind = "triple"
    /\ ~isFinal /\ NextHasDagesh
    /\ OnlyFirstSheva /\ NoShureq
    /\ Len(clusters) = 2
    /\ Len(cachedStructure.nucleus) = 1
    /\ Len(cachedStructure.coda) = 1
    /\ GeminatedIdx = {}

(***************************************************************************)
(* Properties of the characters of the parts.                              *)
(***************************************************************************)
\* the characters of the parts that do not come from gemination, part by part
OwnPartChars ==
    Concat([j \in 1..Len(SelectSeq(Parts, LAMBDA q : ~fromGemination(q))) |->
               SelectSeq(Parts, LAMBDA q : ~fromGemination(q))[j].chars])
\* the number of places of the sequence s that hold c
Occurrences(s, c) == Cardinality({k \in 1..Len(s) : s[k] = c})

\* C25: when `parts` has been computed, every character of the clusters of
\* the syllable is in the parts that do not come from gemination exactly once,
\* these parts hold nothing else, and the part from gemination holds only
\* characters of the following syllable.
C25_CharsPartitioned ==
    cachedParts.kind = "array" =>
        /\ \A c \in Range(SyllableChars(clusters)) : Occurrences(OwnPartChars, c) = 1
        /\ Len(OwnPartChars) = Len(SyllableChars(clusters))
        /\ \A j \in 1..Len(Parts) :
               (\E k \in 1..Len(Parts[j].chars) : Parts[j].chars[k].syl # 0) =>
                   /\ j \in GeminatedIdx
                   /\ \A k \in 1..Len(Parts[j].chars) : Parts[j].chars[k].syl = 1

\* the parts of a syllable whose mater letter was merged into a Vowel and
\* which received a geminated coda
C25_Witness ==
    /\ cachedParts.kind = "array"
    /\ GeminatedIdx # {}
    /\ \E i \in 1..Len(clusters) :
           /\ clusters[i].isMater
           /\ \E j \in 1..Len(Parts) : AppendedToVowel(MaterLetter(i), j)

(***************************************************************************)
(* Properties of the roles of the Consonant parts.                         *)
(***************************************************************************)
\* C26: when `structure` has returned, every Consonant of the onset has
\* partOfOnset and every Consonant of the coda has partOfCoda; of partOfOnset
\* and partOfCoda every Consonant part has exactly one, and a part from
\* gemination has partOfCoda.
C26_RolesAgree ==
    /\ cachedStructure.kind = "triple" =>
           /\ \A j \in 1..Len(cachedStructure.onset) :
                  partOfOnset(cachedStructure.onset[j])
           /\ \A j \in 1..Len(cachedStructure.coda) :
                  partOfCoda(cachedStructure.coda[j])
    /\ cachedParts.kind = "array" =>
           \A j \in 1..Len(Parts) :
               Parts[j].type = "C" =>
                   /\ partOfOnset(Parts[j]) # partOfCoda(Parts[j])
                   /\ fromGemination(Parts[j]) => partOfCoda(Parts[j])

\* a structure whose onset is a consonant extended by its dagesh and whose
\* coda holds a consonant of the syllable and the part from gemination
C26_Witness ==
    /\ cachedStructure.kind = "triple"
    /\ Len(cachedStructure.onset) = 1
    /\ Len(cachedStructure.onset[1].chars) = 2
    /\ Len(cachedStructure.coda) = 1
    /\ fromGemination(cachedStructure.coda[1])
    /\ ret.op = "coda"

(***************************************************************************)
(* Properties of the graph of a Text.                                      *)
(***************************************************************************)
TextOps == {"text", "words", "syllables", "clusters", "chars"}
\* the objects of the kind `kind` that invocation inv built, in order
BuiltBy(inv, kind) ==
    SelectSeq(heap, LAMBDA o : o.kind = kind /\ o.inv = inv)
\* what an object holds, apart from its identity, its invocation and its caches
ContentOf(o) ==
    IF o.kind = "word" THEN <<"word", o.pos, o.text, o.options>>
    ELSE <<"syllable", o.pos, o.i>>
Contents(objs) == [k \in 1..Len(objs) |-> ContentOf(objs[k])]
\* the invocations that read word.syllables
BuiltSyllables == {inv \in 1..invocations : BuiltBy(inv, "syllable") # <<>>}

\* after an accessor of the Text: the children of the Text are Word objects
\* that did not exist before, and so are the Words or the Syllables returned,
\* the Syllables with nothing cached
FreshGraph ==
    got # Idle /\ got.op \in TextOps =>
        /\ \A k \in 1..Len(children) :
               children[k] > got.before /\ heap[children[k]].kind = "word"
        /\ got.op = "words" => got.value = children
        /\ got.op = "syllables" =>
               \A k \in 1..Len(got.value) :
                   /\ got.value[k] > got.before
                   /\ heap[got.value[k]].kind = "syllable"
                   /\ heap[got.value[k]].cachedParts = Null
\* any two invocations built Words of equal content, and Syllables of equal
\* content when both built Syllables
EqualContent ==
    /\ \A a, b \in 1..invocations :
           Contents(BuiltBy(a, "word")) = Contents(BuiltBy(b, "word"))
    /\ \A a, b \in BuiltSyllables :
           Contents(BuiltBy(a, "syllable")) = Contents(BuiltBy(b, "syllable"))
\* a step changes the parts cache of no object but the one whose parts are read,
\* and leaves the string and the options of the Text as constructed
CachesAndTextKept ==
    /\ \A o \in 1..Len(heap) :
           heap'[o] # heap[o] => got'.op = "parts" /\ got'.value = <<o>>
    /\ textOut.kind = "constructed" => textOut' = textOut

\* C24: every accessor of the Text builds new Word objects and makes them the
\* children of the Text; the Syllables of two invocations are different
\* objects, those of the later one with empty caches whatever was cached on
\* those of the earlier one; no accessor changes the string or the options of
\* the Text; two invocations build graphs of equal content.
C24_GraphRebuilt ==
    /\ [](FreshGraph /\ EqualContent)
    /\ [][CachesAndTextKept]_vars

\* the Syllables of a second invocation were returned with empty caches after
\* `parts` was cached on the first Syllable of the first invocation
C24_Witness ==
    /\ invocations = 2
    /\ got.op = "syllables"
    /\ \E o \in 1..got.before :
           /\ heap[o].kind = "syllable" /\ heap[o].inv = 1
           /\ heap[o].cachedParts # Null
           /\ \E k \in 1..Len(got.value) :
                  /\ ContentOf(heap[got.value[k]]) = ContentOf(heap[o])
                  /\ heap[got.value[k]].cachedParts = Null

====
